---- MODULE Spec2Model ----
(***************************************************************************)
(* Model of src/index.ts: diff(dir, sha) walks two git tree snapshots with *)
(* git.walk and an async map callback that classifies every path as add,   *)
(* modify, remove or equal and builds a change record whose diff body is   *)
(* Diff.createPatch's output without its first two lines.                  *)
(*                                                                         *)
(* Conventions.  A text (a JS string) is the non-empty sequence of lines   *)
(* that text.split("\n") yields, so "" is <<"">> and "x\ny" is             *)
(* <<"x", "y">>.  A JS value that may be undefined or null is <<>> when it *)
(* is, and <<v>> otherwise.                                                *)
(***************************************************************************)
EXTENDS Integers, Sequences, FiniteSets, TLC

\* Number of distinct blobs (content and mode) the snapshots draw from.
NumBlobs == 3

\* The blobs of the object store by content identity (oid): equal oid iff
\* equal bytes.  "x\n", "x\ny", "" (an empty file).
Objects == << <<"x", "">>, <<"x", "y">>, <<"">> >>

\* Blob entries as a TREE walker reports them; the modes are 0o100644 and
\* 0o100755.
BlobList ==
  << [type |-> "blob", mode |-> 33188, oid |-> 1],
     [type |-> "blob", mode |-> 33188, oid |-> 2],
     [type |-> "blob", mode |-> 33261, oid |-> 1],
     [type |-> "blob", mode |-> 33261, oid |-> 3],
     [type |-> "blob", mode |-> 33261, oid |-> 2] >>

Undefined == <<>>
Null == <<>>
Some(v) == <<v>>

(***************************************************************************)
(* Tree snapshots.  A snapshot is the map GitWalkerRepo keeps: full path   *)
(* -> entry, for the paths that exist beneath the root ".".                *)
(***************************************************************************)
Root == "."

RootNames == {"a", "b"}
DirNames == {"a"}
SubNames == {"c"}

join(dir, name) == IF dir = Root THEN name ELSE dir \o "/" \o name

AllPaths ==
  {join(Root, n) : n \in RootNames}
    \cup {join(join(Root, d), n) : d \in DirNames, n \in SubNames}

\* All full paths in JS string order ("a" < "a/c" < "b").
PathOrder == <<"a", "a/c", "b">>

BlobEntries == {BlobList[i] : i \in 1..NumBlobs}

\* The directory of every full path.
dirname ==
  [q \in AllPaths |->
     CHOOSE p \in {Root} \cup AllPaths :
       \E n \in RootNames \cup SubNames : q = join(p, n)]

IsChild(q, p) == dirname[q] = p

\* A directory's entry (mode 0o040000).  Its oid is the identity of its
\* content, the entries it holds: here, of the one blob a directory can hold.
TreeEntry(i) == [type |-> "tree", mode |-> 16384, oid |-> 100 + i]
TreeEntries == {TreeEntry(i) : i \in 1..NumBlobs}
Entries == BlobEntries \cup TreeEntries

treeOid(t, p) ==
  100 + (CHOOSE i \in 1..NumBlobs :
           \E q \in DOMAIN t : IsChild(q, p) /\ t[q] = BlobList[i])

\* A snapshot is closed under parents, only DirNames hold directories, and a
\* stored directory is not empty and is identified by its content.
WellFormed(t) ==
  /\ \A q \in DOMAIN t :
       \/ IsChild(q, Root)
       \/ \E p \in DOMAIN t : IsChild(q, p) /\ t[p].type = "tree"
  /\ \A p \in DOMAIN t :
       t[p].type = "tree" =>
         /\ \E d \in DirNames : p = join(Root, d)
         /\ \E q \in DOMAIN t : IsChild(q, p) /\ t[q].type = "blob"
         /\ t[p].oid = treeOid(t, p)

Snapshots ==
  {t \in UNION {[S -> Entries] : S \in SUBSET AllPaths} : WellFormed(t)}

\* The empty tree 4b825dc642cb6eb9a060e54bf8d69288fbee4904 (line 27).
EmptyTree == [p \in {} |-> 0]

\* The root's entry: the walk never reads more than its type.
RootEntry == [type |-> "tree", mode |-> 16384, oid |-> 100]

\* The walker entry of a snapshot at a path, or null.
entryAt(t, p) ==
  IF p = Root THEN Some(RootEntry)
  ELSE IF p \in DOMAIN t THEN Some(t[p]) ELSE Null

\* WalkerEntry.type(), .mode(), .oid() behind the optional chaining A?.f().
type(E) == IF E = Null THEN Undefined ELSE Some(E[1].type)
mode(E) == IF E = Null THEN Undefined ELSE Some(E[1].mode)
oid(E) == IF E = Null THEN Undefined ELSE Some(E[1].oid)

\* A?.content().then(decode) ?? "": the blob's text; "" for an absent side
\* and for a directory, whose content() is undefined.
content(E) ==
  IF E = Null \/ E[1].type # "blob" THEN <<"">> ELSE Objects[E[1].oid]

(***************************************************************************)
(* Diff.createPatch(fileName, oldStr, newStr): a line diff printed as a    *)
(* unified patch.  Texts here have at most four lines, so that the default *)
(* context of four lines keeps every change in one hunk.                   *)
(***************************************************************************)

\* Line tokens: every line but the last ends in a newline; an empty last
\* line is no token.
tokenize(text) ==
  LET n == Len(text)
      head == [i \in 1..(n - 1) |-> [s |-> text[i], nl |-> TRUE]]
  IN IF text[n] = "" THEN head
     ELSE Append(head, [s |-> text[n], nl |-> FALSE])

\* extractCommon(basePath, newString, oldString, diagonalPath): the path
\* follows its diagonal while the next tokens agree.  Positions count from
\* 0 and newPos is the last new token consumed, -1 for none.
RECURSIVE extractCommon(_, _, _, _)
extractCommon(basePath, newString, oldString, diagonalPath) ==
  LET newPos == basePath.newPos
      oldPos == newPos - diagonalPath
  IN IF /\ newPos + 1 < Len(newString)
        /\ oldPos + 1 < Len(oldString)
        /\ newString[newPos + 2] = oldString[oldPos + 2]
       THEN extractCommon([newPos |-> newPos + 1,
                           components |-> Append(basePath.components, " ")],
                          newString, oldString, diagonalPath)
       ELSE basePath

\* execEditLength: the paths of one more edit, diagonal by diagonal.  The
\* path of a diagonal branches from the neighbour that is farther in the new
\* text, by an addition when they are level; the first path to reach both
\* ends is the result.
RECURSIVE execEditLength(_, _, _, _, _)
execEditLength(bestPath, editLength, diagonalPath, newString, oldString) ==
  IF diagonalPath > editLength
    THEN execEditLength(bestPath, editLength + 1, -(editLength + 1),
                        newString, oldString)
  ELSE
    LET addPath == bestPath[diagonalPath - 1]
        removePath == bestPath[diagonalPath + 1]
        oldPos == (IF removePath # Undefined THEN removePath[1].newPos ELSE 0)
                    - diagonalPath
        cleared == [bestPath EXCEPT ![diagonalPath - 1] = Undefined]
        canAdd == /\ addPath # Undefined
                  /\ addPath[1].newPos + 1 < Len(newString)
        canRemove == /\ removePath # Undefined
                     /\ 0 <= oldPos
                     /\ oldPos < Len(oldString)
        pushed == IF ~canAdd
                     \/ (canRemove /\ addPath[1].newPos < removePath[1].newPos)
                    THEN [removePath[1] EXCEPT !.components = Append(@, "-")]
                    ELSE [newPos |-> addPath[1].newPos + 1,
                          components |-> Append(addPath[1].components, "+")]
        basePath == extractCommon(pushed, newString, oldString, diagonalPath)
    IN IF ~canAdd /\ ~canRemove
         THEN execEditLength([cleared EXCEPT ![diagonalPath] = Undefined],
                             editLength, diagonalPath + 2, newString, oldString)
       ELSE IF /\ basePath.newPos + 1 >= Len(newString)
               /\ basePath.newPos - diagonalPath + 1 >= Len(oldString)
         THEN basePath.components
       ELSE execEditLength([cleared EXCEPT ![diagonalPath] = Some(basePath)],
                           editLength, diagonalPath + 2, newString, oldString)

\* diff(oldString, newString): the components of the shortest edit path, one
\* "-", "+" or " " per token.
diff(oldString, newString) ==
  LET maxEditLength == Len(newString) + Len(oldString)
      start == extractCommon([newPos |-> -1, components |-> <<>>],
                             newString, oldString, 0)
  IN IF /\ start.newPos + 1 >= Len(newString)
        /\ start.newPos + 1 >= Len(oldString)
       THEN start.components
       ELSE execEditLength(
              [d \in (-(maxEditLength + 1))..(maxEditLength + 1) |->
                 IF d = 0 THEN Some(start) ELSE Undefined],
              1, -1, newString, oldString)

\* The length of the run of op that seq starts with.
RECURSIVE runLength(_, _)
runLength(seq, op) ==
  IF seq = <<>> \/ Head(seq).op # op THEN 0
  ELSE 1 + runLength(Tail(seq), op)

\* A run of removals that follows a run of additions is put before it.
RECURSIVE removesFirst(_)
removesFirst(seq) ==
  IF seq = <<>> THEN <<>>
  ELSE LET n == runLength(seq, Head(seq).op)
           rest == SubSeq(seq, n + 1, Len(seq))
           m == runLength(rest, "-")
       IN IF Head(seq).op = "+" /\ m > 0
            THEN SubSeq(rest, 1, m) \o SubSeq(seq, 1, n)
                   \o removesFirst(SubSeq(rest, m + 1, Len(rest)))
            ELSE SubSeq(seq, 1, n) \o removesFirst(rest)

\* buildValues: each component with its token, a removed one from the old
\* text, the others from the new; removals are output before the additions
\* they follow.
buildValues(components, newString, oldString) ==
  removesFirst(
    [i \in 1..Len(components) |->
       [op |-> components[i],
        tok |-> IF components[i] = "-"
                  THEN oldString[Cardinality({k \in 1..i : components[k] # "+"})]
                  ELSE newString[Cardinality({k \in 1..i : components[k] # "-"})]]])

\* The edit script from token list a to token list b: a sequence of
\* [op, tok] with op "-" (removed), "+" (added) or " " (common).
editScript(a, b) == buildValues(diff(a, b), b, a)

NoNewline == "\\ No newline at end of file"

\* /\n$/.test(str)
endsInNewline(str) == Len(str) >= 2 /\ str[Len(str)] = ""

\* curRange: each token behind its prefix.
curRange(script) == [i \in 1..Len(script) |-> script[i].op \o script[i].tok.s]

\* The hunk's lines: curRange with the end-of-file markers.  A hunk closed by
\* a change block that holds additions has the marker of an old text without
\* a final newline spliced in behind the old lines, unless the old text is
\* empty; the marker is pushed at the end when the old text has no final
\* newline and was not handled by the splice, or when the new text has no
\* final newline, the empty new text included.
hunkLines(script, oldStr, newStr) ==
  LET range == curRange(script)
      oldLines == Cardinality({i \in 1..Len(script) : script[i].op # "+"})
      oldEOFNewline == endsInNewline(oldStr)
      newEOFNewline == endsInNewline(newStr)
      noNlBeforeAdds == /\ script[Len(script)].op # " "
                        /\ Len(range) > oldLines
      spliced == IF ~oldEOFNewline /\ noNlBeforeAdds /\ oldStr # <<"">>
                   THEN SubSeq(range, 1, oldLines) \o <<NoNewline>>
                          \o SubSeq(range, oldLines + 1, Len(range))
                   ELSE range
  IN IF (~oldEOFNewline /\ ~noNlBeforeAdds) \/ ~newEOFNewline
       THEN Append(spliced, NoNewline)
       ELSE spliced

hunkHeader(oldLines, newLines) ==
  "@@ -" \o ToString(IF oldLines = 0 THEN 0 ELSE 1) \o "," \o ToString(oldLines)
    \o " +" \o ToString(IF newLines = 0 THEN 0 ELSE 1) \o "," \o ToString(newLines)
    \o " @@"

createPatch(fileName, oldStr, newStr) ==
  LET a == tokenize(oldStr)
      b == tokenize(newStr)
      script == editScript(a, b)
      hunk == IF a = b THEN <<>>
              ELSE <<hunkHeader(Len(a), Len(b))>>
                     \o hunkLines(script, oldStr, newStr)
  IN << "Index: " \o fileName,
        "===================================================================",
        "--- " \o fileName,
        "+++ " \o fileName >>
       \o hunk \o <<"">>

\* patch.split("\n").slice(2).join("\n")
removeNoiseFromPatch(patch) ==
  IF Len(patch) <= 2 THEN <<"">> ELSE SubSeq(patch, 3, Len(patch))

(***************************************************************************)
(* The map callback of diff (lines 31-138), content fetches succeeding.    *)
(***************************************************************************)

\* changeType with the add test moved before the modify test, which then
\* overwrites it.
changeTypeAddFirst(aOID, bOID) ==
  LET t1 == IF aOID = Undefined THEN "add" ELSE "equal"
      t2 == IF aOID # bOID THEN "modify" ELSE t1
  IN IF bOID = Undefined THEN "remove" ELSE t2

\* changeType without line 48.
changeTypeNoRemove(aOID, bOID) ==
  LET t1 == IF aOID # bOID THEN "modify" ELSE "equal"
  IN IF aOID = Undefined THEN "add" ELSE t1

\* Lines 45-48: the three assignments in their order.
changeType(aOID, bOID) ==
  LET t1 == IF aOID # bOID THEN "modify" ELSE "equal"
      t2 == IF aOID = Undefined THEN "add" ELSE t1
  IN IF bOID = Undefined THEN "remove" ELSE t2

\* JS truthiness of a mode, and String(mode).
truthy(m) == m # Undefined /\ m[1] # 0
String(m) == IF m = Undefined THEN "undefined" ELSE ToString(m[1])

\* `X ? String(Y) : null`
modeField(X, Y) == IF truthy(X) THEN Some(String(Y)) ELSE Null

addRecord(filepath, A, B) ==
  [diff |-> removeNoiseFromPatch(createPatch(filepath, <<"">>, content(B))),
   new_path |-> Some(filepath),
   old_path |-> Null,
   a_mode |-> modeField(mode(A), mode(A)),
   b_mode |-> modeField(mode(B), mode(B)),
   new_file |-> TRUE,
   renamed_file |-> FALSE,
   deleted_file |-> FALSE]

\* modifyRecord with the add branch's new_file left in.
modifyRecordNewFile(filepath, A, B) ==
  [diff |-> removeNoiseFromPatch(createPatch(filepath, content(A), content(B))),
   new_path |-> Some(filepath),
   old_path |-> Some(filepath),
   a_mode |-> modeField(mode(A), mode(A)),
   b_mode |-> modeField(mode(B), mode(A)),
   new_file |-> TRUE,
   renamed_file |-> FALSE,
   deleted_file |-> FALSE]

\* modifyRecord with b_mode taken from the B side.
modifyRecordBModeFromB(filepath, A, B) ==
  [diff |-> removeNoiseFromPatch(createPatch(filepath, content(A), content(B))),
   new_path |-> Some(filepath),
   old_path |-> Some(filepath),
   a_mode |-> modeField(mode(A), mode(A)),
   b_mode |-> modeField(mode(B), mode(B)),
   new_file |-> FALSE,
   renamed_file |-> FALSE,
   deleted_file |-> FALSE]

modifyRecord(filepath, A, B) ==
  [diff |-> removeNoiseFromPatch(createPatch(filepath, content(A), content(B))),
   new_path |-> Some(filepath),
   old_path |-> Some(filepath),
   a_mode |-> modeField(mode(A), mode(A)),
   b_mode |-> modeField(mode(B), mode(A)),
   new_file |-> FALSE,
   renamed_file |-> FALSE,
   deleted_file |-> FALSE]

\* removeRecord with the two texts of the patch exchanged.
removeRecordSwapped(filepath, A, B) ==
  [diff |-> removeNoiseFromPatch(createPatch(filepath, content(B), content(A))),
   new_path |-> Null,
   old_path |-> Some(filepath),
   a_mode |-> modeField(mode(A), mode(A)),
   b_mode |-> modeField(mode(B), mode(A)),
   new_file |-> FALSE,
   renamed_file |-> FALSE,
   deleted_file |-> TRUE]

removeRecord(filepath, A, B) ==
  [diff |-> removeNoiseFromPatch(createPatch(filepath, content(A), content(B))),
   new_path |-> Null,
   old_path |-> Some(filepath),
   a_mode |-> modeField(mode(A), mode(A)),
   b_mode |-> modeField(mode(B), mode(A)),
   new_file |-> FALSE,
   renamed_file |-> FALSE,
   deleted_file |-> TRUE]

\* Line 32: the root is skipped.
isRoot(filepath) == filepath = Root

\* isTree with && for ||, and isTree testing the A side alone.
isTreeBoth(A, B) == type(A) = Some("tree") /\ type(B) = Some("tree")
isTreeOnlyA(A, B) == type(A) = Some("tree")

\* Line 33: a directory on either side is skipped.
isTree(A, B) == type(A) = Some("tree") \/ type(B) = Some("tree")

\* Line 49: map throws when neither side has a content identity.
mapThrows(filepath, A, B) ==
  /\ ~isRoot(filepath)
  /\ ~isTree(A, B)
  /\ oid(A) = Undefined /\ oid(B) = Undefined

\* map comparing the modes as well as the content identities.
mapModeAware(filepath, A, B) ==
  LET t == changeType(oid(A), oid(B))
  IN IF isRoot(filepath) THEN Undefined
     ELSE IF isTree(A, B) THEN Undefined
     ELSE IF t = "add" THEN Some(addRecord(filepath, A, B))
     ELSE IF t = "modify" \/ (t = "equal" /\ mode(A) # mode(B))
       THEN Some(modifyRecord(filepath, A, B))
     ELSE IF t = "remove" THEN Some(removeRecord(filepath, A, B))
     ELSE Undefined

\* What map returns when it does not throw: undefined, or <<record>>.
map(filepath, A, B) ==
  LET t == changeType(oid(A), oid(B))
  IN IF isRoot(filepath) THEN Undefined
     ELSE IF isTree(A, B) THEN Undefined
     ELSE IF t = "add" THEN Some(addRecord(filepath, A, B))
     ELSE IF t = "modify" THEN Some(modifyRecord(filepath, A, B))
     ELSE IF t = "remove" THEN Some(removeRecord(filepath, A, B))
     ELSE Undefined

\* Whether map awaits a content() of the object store at this path: the add,
\* modify and remove branches do, on every side that exists.
fetchesContent(filepath, A, B) ==
  /\ ~isRoot(filepath)
  /\ ~isTree(A, B)
  /\ changeType(oid(A), oid(B)) # "equal"
  /\ ~(A = Null /\ B = Null)

(***************************************************************************)
(* git.walk as diff calls it (lines 20-31): two TREE walkers, the default  *)
(* reduce (flatten the children, the parent first) and the default iterate *)
(* (Promise.all over the children).                                        *)
(***************************************************************************)

\* readdir of one walker: the children of a directory in string order; a
\* blob or an absent entry has none.
readdir(t, E) ==
  IF E = Null \/ entryAt(t, E[1])[1].type # "tree" THEN <<>>
  ELSE SelectSeq(PathOrder, LAMBDA q : q \in DOMAIN t /\ IsChild(q, E[1]))

rank(q) == CHOOSE i \in 1..Len(PathOrder) : PathOrder[i] = q

\* unionOfIterators: merges the two sorted child lists, one pair per path,
\* null on the side that lacks it.
RECURSIVE unionOfIterators(_, _)
unionOfIterators(sa, sb) ==
  IF sa = <<>> /\ sb = <<>> THEN <<>>
  ELSE IF sb = <<>> \/ (sa # <<>> /\ rank(Head(sa)) < rank(Head(sb)))
    THEN <<<<Some(Head(sa)), Null>>>> \o unionOfIterators(Tail(sa), sb)
  ELSE IF sa = <<>> \/ rank(Head(sb)) < rank(Head(sa))
    THEN <<<<Null, Some(Head(sb))>>>> \o unionOfIterators(sa, Tail(sb))
  ELSE <<<<Some(Head(sa)), Some(Head(sb))>>>>
         \o unionOfIterators(Tail(sa), Tail(sb))

\* entries.find(entry => entry && entry._fullpath)._fullpath
fullpath(entries) == IF entries[1] # Null THEN entries[1][1] ELSE entries[2][1]

\* The children of a walked node, as pairs of per-walker paths.
children(X, Y, entries) ==
  unionOfIterators(readdir(X, entries[1]), readdir(Y, entries[2]))

RECURSIVE flat(_)
flat(lists) == IF lists = <<>> THEN <<>> ELSE Head(lists) \o flat(Tail(lists))

RECURSIVE flatReversed(_)
flatReversed(lists) ==
  IF lists = <<>> THEN <<>> ELSE flatReversed(Tail(lists)) \o Head(lists)

\* reduce gathering the children last to first.
reduceReversed(parent, walkedChildren) ==
  (IF parent # Undefined THEN <<parent[1]>> ELSE <<>>)
    \o flatReversed(walkedChildren)

\* The default reduce: the parent, unless undefined, then the children.
reduce(parent, walkedChildren) ==
  (IF parent # Undefined THEN <<parent[1]>> ELSE <<>>) \o flat(walkedChildren)

(***************************************************************************)
(* State.                                                                  *)
(***************************************************************************)
VARIABLES
  treeA,     \* the parent commit's snapshot (or the empty tree)
  treeB,     \* the commit's snapshot
  key,       \* the running call: "AB" is diff(A, B), "BA" is diff(B, A)
  walk,      \* per path: the state of walk(path), its entries and its value
  threw,     \* the paths at which this call raised an error
  commit,    \* readCommit of this call: "none", "reading", "read", "failed"
  outcome,   \* "idle", "pending", "returned" or "rejected"
  result,    \* what the call returned, if it did
  returned   \* per key, the list the last returned call gave

vars == <<treeA, treeB, key, walk, threw, commit, outcome, result, returned>>

WalkPaths == {Root} \cup AllPaths
Keys == {"AB", "BA"}

treeOf(k, i) == IF (k = "AB") = (i = 1) THEN treeA ELSE treeB

\* The two walker entries of a walked node's pair of paths.
entriesOf(k, pair) ==
  <<IF pair[1] = Null THEN Null ELSE entryAt(treeOf(k, 1), pair[1][1]),
    IF pair[2] = Null THEN Null ELSE entryAt(treeOf(k, 2), pair[2][1])>>

Unvisited ==
  [state |-> "unvisited", pair |-> <<Null, Null>>, kids |-> <<>>, value |-> <<>>]

\* Promise.all over the children's walks rejects with the first rejection.
iterateRejects(w, p) ==
  \E i \in 1..Len(w[p].kids) : w[w[p].kids[i]].state = "rejected"

\* Promise.all fulfils once every child's walk has.
iterateFulfils(w, p) ==
  \A i \in 1..Len(w[p].kids) : w[w[p].kids[i]].state = "fulfilled"

\* The children's values, in the children's order.
walkedChildren(w, p) ==
  [i \in 1..Len(w[p].kids) |-> w[w[p].kids[i]].value]

\* One round of promise reactions: every walk awaiting its children settles
\* if Promise.all has.
react(w) ==
  [p \in WalkPaths |->
     IF w[p].state # "iterate" THEN w[p]
     ELSE IF iterateRejects(w, p) THEN [w[p] EXCEPT !.state = "rejected"]
     ELSE IF iterateFulfils(w, p)
       THEN [w[p] EXCEPT !.state = "fulfilled",
                         !.value = reduce(w[p].value, walkedChildren(w, p))]
     ELSE w[p]]

\* The reactions run to completion before the next I/O completion is handled
\* (each round is bound through a singleton set, to be computed once).
RECURSIVE settle(_)
settle(w) ==
  CHOOSE r \in {IF w2 = w THEN w ELSE settle(w2) : w2 \in {react(w)}} : TRUE

\* How diff's promise stands once the reactions have run.
settled(w) ==
  IF w[Root].state = "fulfilled" THEN "returned"
  ELSE IF w[Root].state = "rejected" THEN "rejected"
  ELSE "pending"

Init ==
  /\ treeA \in Snapshots
  /\ treeB \in Snapshots
  /\ key = "AB"
  /\ walk = [p \in WalkPaths |-> Unvisited]
  /\ threw = {}
  /\ commit = "none"
  /\ outcome = "idle"
  /\ result = Undefined
  /\ returned = [k \in Keys |-> Undefined]

\* diff is called and waits for readCommit (line 14).  The caller, main,
\* awaits one diff before it calls the next (lines 174-175), and calls no
\* other once one has rejected.
Call(k) ==
  /\ outcome \in {"idle", "returned"}
  /\ key' = k
  /\ walk' = [p \in WalkPaths |-> Unvisited]
  /\ threw' = {}
  /\ commit' = "reading"
  /\ outcome' = "pending"
  /\ result' = Undefined
  /\ UNCHANGED <<treeA, treeB, returned>>

\* readCommit fulfils: git.walk is called (lines 20-31) and walk(root) starts
\* with the walkers resolving their trees and reading the root's.
ReadCommitReturn ==
  /\ outcome = "pending"
  /\ commit = "reading"
  /\ commit' = "read"
  /\ walk' = [walk EXCEPT ![Root] =
                [state |-> "readdir", pair |-> <<Some(Root), Some(Root)>>,
                 kids |-> <<>>, value |-> <<>>]]
  /\ UNCHANGED <<treeA, treeB, key, threw, outcome, result, returned>>

\* readCommit rejects (an unknown sha, a failing object store): diff rejects
\* at line 14, git.walk is not called and no map runs.
ReadCommitThrow ==
  /\ outcome = "pending"
  /\ commit = "reading"
  /\ commit' = "failed"
  /\ outcome' = "rejected"
  /\ UNCHANGED <<treeA, treeB, key, walk, threw, result, returned>>

\* Whether walk starts with a read of the object store: readdir reads the
\* tree of an entry that is a directory, and returns null for any other
\* without a read.
readsTree(k, pair) == isTree(entriesOf(k, pair)[1], entriesOf(k, pair)[2])

\* The walks after map(p) returned v: walk(p) keeps v and starts the walks
\* of its children cs, each with its readdir and then its map.
spawn(w, p, v, cs) ==
  [q \in WalkPaths |->
     IF q = p
       THEN [w[p] EXCEPT !.state = "iterate", !.value = v,
                         !.kids = [i \in 1..Len(cs) |-> fullpath(cs[i])]]
     ELSE IF \E i \in 1..Len(cs) : fullpath(cs[i]) = q
       THEN LET pair == cs[CHOOSE i \in 1..Len(cs) : fullpath(cs[i]) = q]
            IN [state |-> IF readsTree(key, pair) THEN "readdir" ELSE "map",
                pair |-> pair, kids |-> <<>>, value |-> <<>>]
     ELSE w[q]]

\* onThrow with the error caught and the path skipped.
onThrowSwallowed(w, p) ==
  [w EXCEPT ![p].state = "fulfilled", ![p].value = <<>>]

\* The walks after readdir(p) or map(p) threw: neither walk nor map has a
\* catch, so the promise rejects and walk(p) with it.
onThrow(w, p) == [w EXCEPT ![p].state = "rejected"]

\* The call's end, if the walks w end it: diff fulfils with walk(root)'s list
\* or rejects with nothing.  A rejected call stays rejected, while the walks
\* still in flight run on.
Finish(w) ==
  /\ walk' = w
  /\ outcome' = settled(w)
  /\ result' = IF settled(w) = "returned" THEN Some(w[Root].value) ELSE Undefined
  /\ returned' = IF settled(w) = "returned"
                   THEN [returned EXCEPT ![key] = Some(w[Root].value)]
                   ELSE returned

\* readdir(p) fulfils: the trees of p are read and map(p) is called.
ReaddirReturn(p) ==
  /\ walk[p].state = "readdir"
  /\ walk' = [walk EXCEPT ![p].state = "map"]
  /\ UNCHANGED <<treeA, treeB, key, threw, commit, outcome, result, returned>>

\* readdir(p) rejects (a tree that cannot be resolved or read): walk(p)
\* rejects before map(p) is called; the reactions that follow run.
ReaddirThrow(p) ==
  /\ walk[p].state = "readdir"
  /\ threw' = threw \cup {p}
  /\ \E w0 \in {onThrow(walk, p)} :
       \E w \in {settle(w0)} : Finish(w)
  /\ UNCHANGED <<treeA, treeB, key, commit>>

\* map(p) returns, and the promise reactions that follow run.  A map in
\* flight returns whether or not the call has been rejected meanwhile.
MapReturn(p) ==
  /\ walk[p].state = "map"
  /\ LET E == entriesOf(key, walk[p].pair)
     IN /\ ~mapThrows(p, E[1], E[2])
        /\ \E v \in {map(p, E[1], E[2])} :
             \E cs \in {children(treeOf(key, 1), treeOf(key, 2), walk[p].pair)} :
               \E w0 \in {spawn(walk, p, v, cs)} :
                 \E w \in {settle(w0)} : Finish(w)
  /\ UNCHANGED <<treeA, treeB, key, threw, commit>>

\* map(p) throws: its own error (line 50), or a content() that the object
\* store fails (lines 57, 76-81, 103-108); the reactions that follow run.
MapThrow(p) ==
  /\ walk[p].state = "map"
  /\ LET E == entriesOf(key, walk[p].pair)
     IN \/ mapThrows(p, E[1], E[2])
        \/ fetchesContent(p, E[1], E[2])
  /\ threw' = threw \cup {p}
  /\ \E w0 \in {onThrow(walk, p)} :
       \E w \in {settle(w0)} : Finish(w)
  /\ UNCHANGED <<treeA, treeB, key, commit>>

Next ==
  \/ \E k \in Keys : Call(k)
  \/ ReadCommitReturn
  \/ ReadCommitThrow
  \/ \E p \in WalkPaths : ReaddirReturn(p)
  \/ \E p \in WalkPaths : ReaddirThrow(p)
  \/ \E p \in WalkPaths : MapReturn(p)
  \/ \E p \in WalkPaths : MapThrow(p)

Spec == Init /\ [][Next]_vars

(***************************************************************************)
(* Properties.                                                             *)
(***************************************************************************)

\* The old and the new side of the running call, and the returned list.
X == treeOf(key, 1)
Y == treeOf(key, 2)
Returned == outcome = "returned"
List == result[1]

IsBlob(t, p) == p \in DOMAIN t /\ t[p].type = "blob"
IsDir(t, p) == p \in DOMAIN t /\ t[p].type = "tree"

\* The records of a list that name a path, in the list's order.
recordsFor(list, p) ==
  SelectSeq(list, LAMBDA r : r.new_path = Some(p) \/ r.old_path = Some(p))

\* The path a record is about.
pathOf(r) == IF r.new_path # Null THEN r.new_path[1] ELSE r.old_path[1]

\* The lines of a text as hunk lines with a prefix.
prefixed(pre, text) ==
  LET toks == tokenize(text) IN [i \in 1..Len(toks) |-> pre \o toks[i].s]

\* The lines of a diff body, in order, that are among the given lines.
among(body, lines) ==
  SelectSeq(body, LAMBDA l : \E i \in 1..Len(lines) : lines[i] = l)

IsAdd(r) ==
  /\ r.new_file /\ ~r.deleted_file /\ ~r.renamed_file
  /\ r.old_path = Null /\ r.new_path # Null

IsRemove(r) ==
  /\ r.deleted_file /\ ~r.new_file /\ ~r.renamed_file
  /\ r.new_path = Null /\ r.old_path # Null

IsModify(r) ==
  /\ ~r.new_file /\ ~r.deleted_file /\ ~r.renamed_file
  /\ r.old_path = r.new_path /\ r.new_path # Null

\* C1: a path that is a blob in B and has no entry in A gets exactly one
\* record, an add record for that path, whose diff is the patch from the
\* empty text to B's content without its first two lines: every line of the
\* content is an added line, in order, and no line is removed.
C1_AddRecord ==
  Returned =>
    \A p \in AllPaths :
      (IsBlob(Y, p) /\ p \notin DOMAIN X) =>
        LET rs == recordsFor(List, p)
            text == Objects[Y[p].oid]
        IN /\ Len(rs) = 1
           /\ IsAdd(rs[1])
           /\ rs[1].new_path = Some(p)
           /\ rs[1].diff = removeNoiseFromPatch(createPatch(p, <<"">>, text))
           /\ among(rs[1].diff, prefixed("+", text)) = prefixed("+", text)
           /\ among(rs[1].diff, prefixed("-", text)) = <<>>

\* The second scenario: A holds one file, B holds it unchanged and a second,
\* two-line file; the call returned one record, for the second file.
C1_Witness ==
  /\ Returned
  /\ key = "AB"
  /\ DOMAIN treeA = {"a"} /\ DOMAIN treeB = {"a", "b"}
  /\ treeA["a"] = treeB["a"] /\ treeA["a"].type = "blob"
  /\ treeB["b"].oid = 2
  /\ Len(List) = 1 /\ List[1].new_path = Some("b") /\ List[1].new_file

\* C2: a path that is a blob in A and has no entry in B gets exactly one
\* record, a remove record for that path, whose diff is the patch from A's
\* content to the empty text without its first two lines.
C2_RemoveRecord ==
  Returned =>
    \A p \in AllPaths :
      (IsBlob(X, p) /\ p \notin DOMAIN Y) =>
        LET rs == recordsFor(List, p)
            text == Objects[X[p].oid]
        IN /\ Len(rs) = 1
           /\ IsRemove(rs[1])
           /\ rs[1].old_path = Some(p)
           /\ rs[1].diff = removeNoiseFromPatch(createPatch(p, text, <<"">>))
           /\ among(rs[1].diff, prefixed("-", text)) = prefixed("-", text)
           /\ among(rs[1].diff, prefixed("+", text)) = <<>>

\* A two-line file beneath a directory of A is gone in B, and the call
\* returned its remove record.
C2_Witness ==
  /\ Returned
  /\ IsBlob(X, "a/c") /\ X["a/c"].oid = 2 /\ "a" \notin DOMAIN Y
  /\ \E i \in 1..Len(List) :
       List[i].deleted_file /\ List[i].old_path = Some("a/c")

\* C3: a path whose two entries are blobs of equal content identity gets no
\* record, whatever the two modes; a tree diffed against itself gives the
\* empty list.
C3_EqualNoRecord ==
  Returned =>
    /\ \A p \in AllPaths :
         (IsBlob(X, p) /\ IsBlob(Y, p) /\ X[p].oid = Y[p].oid) =>
           recordsFor(List, p) = <<>>
    /\ (X = Y => List = <<>>)

\* A mode-only change: same content, different modes, and the call returned.
C3_Witness ==
  /\ Returned
  /\ IsBlob(X, "b") /\ IsBlob(Y, "b")
  /\ X["b"].oid = Y["b"].oid /\ X["b"].mode # Y["b"].mode
  /\ List = <<>>

\* C4: every returned record is of exactly one of the three shapes add,
\* remove, modify; so new_path is null only in remove records, old_path only
\* in add records, and renamed_file is false.
C4_RecordShape ==
  Returned =>
    \A i \in 1..Len(List) :
      LET r == List[i]
          n == (IF IsAdd(r) THEN 1 ELSE 0) + (IF IsRemove(r) THEN 1 ELSE 0)
                 + (IF IsModify(r) THEN 1 ELSE 0)
      IN /\ n = 1
         /\ (r.new_path = Null => IsRemove(r))
         /\ (r.old_path = Null => IsAdd(r))
         /\ ~r.renamed_file

\* A returned list with a modify record and a remove record.
C4_Witness ==
  /\ Returned
  /\ \E i, j \in 1..Len(List) : IsModify(List[i]) /\ IsRemove(List[j])

\* The A-side mode of a record's path, as the record encodes modes.
aModeString(p) == Some(ToString(X[p].mode))

\* C5 as stated: in every modify record and every remove record, b_mode is
\* the string of the A-side entry's mode.
C5_AsStated ==
  Returned =>
    \A i \in 1..Len(List) :
      (IsModify(List[i]) \/ IsRemove(List[i])) =>
        List[i].b_mode = aModeString(pathOf(List[i]))

\* C5, amended: in every modify record b_mode is the string of the A-side
\* entry's mode, whatever the B-side mode is; in every remove record b_mode
\* is null.
C5_BModeFromA ==
  Returned =>
    \A i \in 1..Len(List) :
      /\ IsModify(List[i]) => List[i].b_mode = aModeString(pathOf(List[i]))
      /\ IsRemove(List[i]) => List[i].b_mode = Null

\* A modify record of a path whose mode changed too, beside a remove record.
C5_Witness ==
  /\ Returned
  /\ \E i, j \in 1..Len(List) :
       /\ IsModify(List[i])
       /\ X[pathOf(List[i])].mode # Y[pathOf(List[i])].mode
       /\ IsRemove(List[j])

\* Two records mirror each other: add against remove at the same path, or
\* modify against modify at the same path with the patch built the other
\* way round (old and new are the texts of the record's call).
mirrors(r, r2, old, new) ==
  /\ pathOf(r) = pathOf(r2)
  /\ IsAdd(r) => IsRemove(r2)
  /\ IsRemove(r) => IsAdd(r2)
  /\ IsModify(r) =>
       /\ IsModify(r2)
       /\ r.diff = removeNoiseFromPatch(createPatch(
                     pathOf(r), Objects[old[pathOf(r)].oid],
                     Objects[new[pathOf(r)].oid]))
       /\ r2.diff = removeNoiseFromPatch(createPatch(
                      pathOf(r), Objects[new[pathOf(r)].oid],
                      Objects[old[pathOf(r)].oid]))

\* C6: once diff(A, B) and diff(B, A) have both returned, their records
\* mirror each other and cover the same paths.
C6_Mirror ==
  (returned["AB"] # Undefined /\ returned["BA"] # Undefined) =>
    LET ab == returned["AB"][1]
        ba == returned["BA"][1]
    IN /\ \A i \in 1..Len(ab) :
            \E j \in 1..Len(ba) : mirrors(ab[i], ba[j], treeA, treeB)
       /\ \A j \in 1..Len(ba) :
            \E i \in 1..Len(ab) : mirrors(ba[j], ab[i], treeB, treeA)

\* Both calls returned; diff(A, B) holds an add and a modify whose two
\* patches differ.
C6_Witness ==
  /\ returned["AB"] # Undefined /\ returned["BA"] # Undefined
  /\ \E i, j \in 1..Len(returned["AB"][1]) :
       /\ IsAdd(returned["AB"][1][i])
       /\ IsModify(returned["AB"][1][j])
       /\ \E m \in 1..Len(returned["BA"][1]) :
            /\ IsModify(returned["BA"][1][m])
            /\ returned["BA"][1][m].diff # returned["AB"][1][j].diff

\* C7: no record names the root or a path that is a directory on either
\* side, and the blobs beneath a directory that only one side has are each
\* reported once: as an add when B has the directory, as a remove when A has.
C7_DirectoriesSkipped ==
  Returned =>
    /\ recordsFor(List, Root) = <<>>
    /\ \A p \in AllPaths :
         (IsDir(X, p) \/ IsDir(Y, p)) => recordsFor(List, p) = <<>>
    /\ \A d \in AllPaths : \A q \in AllPaths :
         /\ (IsDir(Y, d) /\ ~IsDir(X, d) /\ IsChild(q, d) /\ IsBlob(Y, q)) =>
              /\ Len(recordsFor(List, q)) = 1
              /\ IsAdd(recordsFor(List, q)[1])
         /\ (IsDir(X, d) /\ ~IsDir(Y, d) /\ IsChild(q, d) /\ IsBlob(X, q)) =>
              /\ Len(recordsFor(List, q)) = 1
              /\ IsRemove(recordsFor(List, q)[1])

\* A is the empty tree and B has a directory: the call returned the add
\* record of the file beneath it and nothing else.
C7_Witness ==
  /\ Returned
  /\ key = "AB"
  /\ treeA = EmptyTree
  /\ IsDir(treeB, "a") /\ DOMAIN treeB = {"a", "a/c"}
  /\ Len(List) = 1 /\ IsAdd(List[1]) /\ List[1].new_path = Some("a/c")

\* The traversal order of the paths: depth first, by name within a directory.
before(p, q) == rank(p) < rank(q)

ordered(list) ==
  \A i, j \in 1..Len(list) : i < j => before(pathOf(list[i]), pathOf(list[j]))

\* C8: whatever order the maps complete in, a returned list is in traversal
\* order with every path at most once, and a later call on the same pair of
\* trees returns the list the earlier one returned.
C8_Deterministic ==
  [][\A k \in Keys :
       /\ returned'[k] # Undefined => ordered(returned'[k][1])
       /\ returned[k] # Undefined => returned'[k] = returned[k]]_vars

\* In a repeated call, the map of "b" has completed with its record while
\* the map of "a/c", which comes first in the list, is still fetching.
C8_Witness ==
  /\ outcome = "pending"
  /\ returned[key] # Undefined /\ Len(returned[key][1]) = 2
  /\ walk["b"].state = "fulfilled" /\ Len(walk["b"].value) = 1
  /\ walk["a/c"].state = "map"

\* C9: an error raised at any path, by map or by the read of a directory,
\* rejects the call: it returns no list, neither one that skips the failing
\* path nor the records built so far, and the maps that run on after the
\* rejection do not change that.  map raises an error where both content
\* identities are absent.  A call is rejected by nothing but such an error or
\* a readCommit that failed.
C9_ErrorsAbort ==
  /\ threw # {} => (outcome = "rejected" /\ result = Undefined)
  /\ outcome = "rejected" =>
       (result = Undefined /\ (threw # {} \/ commit = "failed"))
  /\ \A p \in AllPaths : mapThrows(p, Null, Null)

\* The content fetch of "a/c" failed after the record of "b" was built, and
\* the call was rejected.
C9_Witness ==
  /\ outcome = "rejected"
  /\ threw = {"a/c"}
  /\ walk["b"].state = "fulfilled" /\ Len(walk["b"].value) = 1

\* A path changes kind: a blob on one side, a directory on the other.
kindChange(p) ==
  \/ IsBlob(X, p) /\ IsDir(Y, p)
  \/ IsDir(X, p) /\ IsBlob(Y, p)

\* C10: a path that changes kind gets no record, neither a remove of the
\* blob that went nor an add of the blob that came; the records of the call
\* are those of the other paths whose blobs differ.
C10_KindChange ==
  Returned =>
    \A p \in AllPaths :
      kindChange(p) =>
        /\ recordsFor(List, p) = <<>>
        /\ \A q \in AllPaths :
             (IsChild(q, p) /\ (IsBlob(X, q) \/ IsBlob(Y, q))) =>
               Len(recordsFor(List, q)) = 1
        /\ {pathOf(List[i]) : i \in 1..Len(List)}
             = {q \in AllPaths \ {p} :
                  /\ IsBlob(X, q) \/ IsBlob(Y, q)
                  /\ ~(q \in DOMAIN X /\ q \in DOMAIN Y /\ X[q].oid = Y[q].oid)}

\* "a" is a blob in A and a directory in B: the call returned one record, the
\* add of "a/c", and none for "a", whose blob is gone.
C10_Witness ==
  /\ Returned
  /\ IsBlob(X, "a") /\ IsDir(Y, "a")
  /\ DOMAIN X = {"a"} /\ DOMAIN Y = {"a", "a/c"}
  /\ Len(List) = 1 /\ IsAdd(List[1]) /\ List[1].new_path = Some("a/c")
====
